---- MODULE Spec2Model ----
(***************************************************************************)
(* A model of gif_your_nifti/core.py: the two normalizers                  *)
(* (load_and_prepare_image, load_and_prepare_image_isotropic), the mosaic  *)
(* compositors (create_mosaic_normal / _depth / _RGB), the colormap step   *)
(* of write_gif_pseudocolor and the four top-level conversions write_gif_* *)
(*                                                                         *)
(* Arrays are functions: a cube is a function on Coords(N) (0-based index  *)
(* triples), a 2D frame a function on Grid(h, w) (0-based <<row, col>>),   *)
(* a multi-channel frame maps <<row, col>> to the tuple of its channels.   *)
(*                                                                         *)
(* Scope of the inputs: every conversion is called with size = 1 (so the   *)
(* `if size != 1` resize branches are not taken and int(maximum * size) =  *)
(* maximum) and with the default fps; volumes have uniform voxel spacing   *)
(* and canonical orientation, so in the isotropic normalizer factors = 1   *)
(* and zoom(data, factors) returns the data unchanged.  Voxel intensities  *)
(* are 0, 1 or 2, for which the float product v * (255 / max) is exact.    *)
(***************************************************************************)
EXTENDS Integers, Sequences, FiniteSets, TLC

VARIABLES
    mode,         \* which write_gif_* conversion runs
    pc,           \* the statement the conversion is at
    data,         \* the array of the file being prepared
    padded,       \* out_img after the padding step
    prepared,     \* the (out_img, maximum) pairs returned so far
    frameskip,    \* the frameskip argument (0 until the compositor reads it)
    colormap,     \* the colormap argument ("" until get_cmap reads it)
    composed,     \* new_img: what the compositor returned
    colored,      \* cmap_img
    written,      \* the files the encoder has written
    encodeCalls,  \* the number of calls of mimwrite_
    error,        \* the exception that ended the conversion ("" if none)
    trace         \* the stages completed, in order

vars == <<mode, pc, data, padded, prepared, frameskip, colormap,
          composed, colored, written, encodeCalls, error, trace>>

----------------------------------------------------------------------------
(* Bounds of the model *)

MaxDim == 4
MaxSkip == 3

(* Program constants *)

UInt8Max == 255
Fps == 18
DepthWindow == 3
DepthPadFrames == 3
RGBPadFrames == 3
MillisPerSecond == 1000

----------------------------------------------------------------------------
(* Inputs *)

Modes == {"normal", "depth", "rgb", "pseudocolor"}
Dims == 1..MaxDim
Shapes == Dims \X Dims \X Dims
Patterns == {"zero", "flat", "first", "last"}
Colormaps == {"hot", "not_a_colormap"}

Coords(N) == (0..(N - 1)) \X (0..(N - 1)) \X (0..(N - 1))
Box(shape) == (0..(shape[1] - 1)) \X (0..(shape[2] - 1)) \X (0..(shape[3] - 1))
Grid(h, w) == (0..(h - 1)) \X (0..(w - 1))

\* The voxel array a file holds: all zero, all one, or all one with a
\* single brighter voxel at the first or at the last index.
FileData(shape, pattern) ==
    [p \in Box(shape) |->
        CASE pattern = "zero" -> 0
          [] pattern = "flat" -> 1
          [] pattern = "first" -> IF p = <<0, 0, 0>> THEN 2 ELSE 1
          [] pattern = "last" ->
                IF p = <<shape[1] - 1, shape[2] - 1, shape[3] - 1>> THEN 2 ELSE 1]

Volume(shape, pattern) == [shape |-> shape, px |-> FileData(shape, pattern)]

Volumes == {Volume(s, p) : s \in Shapes, p \in Patterns}

\* The channel volumes offered to the RGB conversion: cubic, with one
\* distinguished voxel.
RGBVolumes == {Volume(<<d, d, d>>, p) : d \in Dims, p \in {"first", "last"}}

FilesFor(m) == IF m = "rgb" THEN RGBVolumes ELSE Volumes

NumFiles(m) == IF m = "rgb" THEN 3 ELSE 1

NoVolume == [shape |-> <<0, 0, 0>>, px |-> <<>>]
NoCube == [status |-> "none", cube |-> <<>>, maximum |-> 0, start |-> <<0, 0, 0>>]

----------------------------------------------------------------------------
(* Arithmetic helpers *)

Abs(a) == IF a < 0 THEN -a ELSE a
Min2(a, b) == IF a < b THEN a ELSE b
Max2(a, b) == IF a < b THEN b ELSE a
MaxOf(S) == CHOOSE m \in S : \A x \in S : x <= m

\* int(a / b): true division, then truncation toward zero.
TruncDiv(a, b) ==
    LET q == Abs(a) \div Abs(b)
    IN IF (a < 0) = (b < 0) THEN q ELSE -q

\* a // b on integers, b > 0: floor division.
FloorDiv(a, b) == a \div b

\* ceil(a / b), a >= 0, b > 0
CeilDiv(a, b) == (a + b - 1) \div b

\* range(start, stop, step), step > 0
RECURSIVE PyRange(_, _, _)
PyRange(start, stop, step) ==
    IF start >= stop THEN <<>>
    ELSE <<start>> \o PyRange(start + step, stop, step)

\* seq[i:j] for 0 <= i <= j (0-based, end exclusive, clipped to the length)
PySlice(seq, i, j) == SubSeq(seq, i + 1, Min2(j, Len(seq)))

\* a slice bound on an axis of length n: negative bounds count from the end,
\* and the result is clipped to [0, n]
ClipIndex(i, n) == Max2(0, Min2(n, IF i < 0 THEN i + n ELSE i))

----------------------------------------------------------------------------
(* The normalizers *)

\* out_img[s0:e0, s1:e1, s2:e2] = data.px on a zero cube of side N.
\* numpy requires the data to fit the slice (an axis of length 1 is
\* broadcast), and raises ValueError otherwise.
SliceAssign(N, start, stop, vol) ==
    LET lo == [k \in 1..3 |-> ClipIndex(start[k], N)]
        hi == [k \in 1..3 |-> Max2(lo[k], ClipIndex(stop[k], N))]
        fits == \A k \in 1..3 :
                    \/ hi[k] - lo[k] = vol.shape[k]
                    \/ vol.shape[k] = 1
        src(p) == [k \in 1..3 |->
                      IF vol.shape[k] = 1 THEN 0 ELSE p[k] - lo[k]]
    IN IF fits
       THEN [status |-> "ok",
             cube |-> [p \in Coords(N) |->
                          IF \A k \in 1..3 : lo[k] <= p[k] /\ p[k] < hi[k]
                          THEN vol.px[src(p)] ELSE 0],
             maximum |-> N, start |-> start]
       ELSE [status |-> "ValueError", cube |-> <<>>,
             maximum |-> N, start |-> start]

\* a faulty variant: the half pad rounded up
LegacyStartCeil(shape, maximum) ==
    [k \in 1..3 |-> -FloorDiv(shape[k] - maximum, 2)]

\* x, y, z = (list(data.shape) - maximum) / -2, each then passed to int()
LegacyStart(shape, maximum) ==
    [k \in 1..3 |-> TruncDiv(shape[k] - maximum, -2)]

\* a faulty variant: the half pad rounded up
IsoStartCeil(shape, maximum) ==
    [k \in 1..3 |-> FloorDiv(maximum - shape[k] + 1, 2)]

\* start = ((maximum - shape) // 2).astype(int)
IsoStart(shape, maximum) ==
    [k \in 1..3 |-> FloorDiv(maximum - shape[k], 2)]

\* load_and_prepare_image, the padding step
LegacyPad(vol) ==
    LET maximum == MaxOf({vol.shape[k] : k \in 1..3})
        start == LegacyStart(vol.shape, maximum)
        stop == [k \in 1..3 |-> vol.shape[k] + start[k]]
    IN SliceAssign(maximum, start, stop, vol)

\* load_and_prepare_image_isotropic, the padding step
IsoPad(vol) ==
    LET maximum == MaxOf({vol.shape[k] : k \in 1..3})
        start == IsoStart(vol.shape, maximum)
        stop == [k \in 1..3 |-> start[k] + vol.shape[k]]
    IN SliceAssign(maximum, start, stop, vol)

PadFor(m, vol) == IF m = "normal" THEN IsoPad(vol) ELSE LegacyPad(vol)

CubeMax(c) == MaxOf({c.cube[p] : p \in Coords(c.maximum)})

\* What astype(np.uint8) makes of NaN is not defined; the two ends of the
\* uint8 range stand for the values a build can produce.
NanCastOutcomes == {0, UInt8Max}

\* out_img *= 255 / out_img.max(); out_img = out_img.astype(np.uint8).
\* With numpy scalars 255 / 0.0 is inf (a warning, no exception), 0 * inf is
\* NaN, and the cast of NaN is undefined: every outcome is a result.
ScaleOutcomes(c) ==
    IF CubeMax(c) = 0
    THEN {[c EXCEPT !.cube = [p \in Coords(c.maximum) |-> v]] :
              v \in NanCastOutcomes}
    ELSE {[c EXCEPT !.cube = [p \in Coords(c.maximum) |->
                                 (c.cube[p] * UInt8Max) \div CubeMax(c)]]}

----------------------------------------------------------------------------
(* The mosaic compositors *)

SliceAxis0(cube, N, i) == [rc \in Grid(N, N) |-> cube[<<i, rc[1], rc[2]>>]]
SliceAxis1(cube, N, j) == [rc \in Grid(N, N) |-> cube[<<rc[1], j, rc[2]>>]]
SliceAxis2(cube, N, j) == [rc \in Grid(N, N) |-> cube[<<rc[1], rc[2], j>>]]

\* np.flip(A, 1) of an h x w array
Flip1(A, h, w) == [rc \in Grid(h, w) |-> A[<<rc[1], w - 1 - rc[2]>>]]

\* A.T of an h x w array
Transpose(A, h, w) == [rc \in Grid(w, h) |-> A[<<rc[2], rc[1]>>]]

\* np.hstack((A, B)) of an h x wa and an h x wb array
Hstack(A, B, h, wa, wb) ==
    [rc \in Grid(h, wa + wb) |->
        IF rc[2] < wa THEN A[rc] ELSE B[<<rc[1], rc[2] - wa>>]]

\* np.flip(S, 1).T of an N x N slice
Panel(S, N) == Transpose(Flip1(S, N, N), N, N)

\* a faulty variant: the axis-1 slice taken at i
SliceIndex1Unmirrored(N, i) == i

\* the slice indices of frame i on axes 0, 1 and 2
SliceIndex0(N, i) == i
SliceIndex1(N, i) == N - i - 1
SliceIndex2(N, i) == N - i - 1

\* one element of the list comprehension of create_mosaic_normal
MosaicFrame(cube, N, i) ==
    Hstack(
        Hstack(Panel(SliceAxis0(cube, N, SliceIndex0(N, i)), N),
               Panel(SliceAxis1(cube, N, SliceIndex1(N, i)), N), N, N, N),
        Panel(SliceAxis2(cube, N, SliceIndex2(N, i)), N), N, 2 * N, N)

\* a faulty variant: the range started at frameskip
DepthIndicesFromSkip(N, fs) == PyRange(fs, N, fs)

\* range(0, maximum, frameskip)
DepthIndices(N, fs) == PyRange(0, N, fs)

CreateMosaicNormal(cube, N, fs) ==
    LET idx == DepthIndices(N, fs)
    IN [k \in 1..Len(idx) |-> MosaicFrame(cube, N, idx[k])]

ZeroFrames(n, N, ch) ==
    [j \in 1..n |-> [rc \in Grid(N, 3 * N) |-> [c \in 1..ch |-> 0]]]

\* range(maximum - 3) in create_mosaic_depth: the window starts
DepthStarts(N, fs) == PyRange(0, N - DepthWindow, 1)

\* create_mosaic_depth.  np.array of no windows is 1-dimensional and
\* np.rollaxis(_, 1, 4) raises AxisError; np.array of windows of different
\* lengths raises ValueError (or gives a 1-dimensional object array, on
\* which rollaxis raises AxisError, a ValueError too).
CreateMosaicDepth(cube, N, fs) ==
    LET new_img == CreateMosaicNormal(cube, N, fs)
        starts == DepthStarts(N, fs)
        rgb_img == [k \in 1..Len(starts) |->
                       PySlice(new_img, starts[k], starts[k] + DepthWindow)]
    IN IF Len(rgb_img) = 0
       THEN [status |-> "AxisError", frames |-> <<>>]
       ELSE IF \E k \in 1..Len(rgb_img) : Len(rgb_img[k]) # Len(rgb_img[1])
       THEN [status |-> "ValueError", frames |-> <<>>]
       ELSE LET ch == Len(rgb_img[1])
                stacked == [k \in 1..Len(rgb_img) |->
                               [rc \in Grid(N, 3 * N) |->
                                   [c \in 1..ch |-> rgb_img[k][c][rc]]]]
            IN [status |-> "ok",
                frames |-> stacked \o ZeroFrames(DepthPadFrames, N, ch)]

\* a faulty variant: the first two channels exchanged
StackRGBSwapped(f1, f2, f3, N) ==
    [rc \in Grid(N, 3 * N) |-> <<f2[rc], f1[rc], f3[rc]>>]

\* [new_img1[i, ...], new_img2[i, ...], new_img3[i, ...]] after
\* np.rollaxis(_, 1, 4): the three frames become the channels of one frame
StackRGB(f1, f2, f3, N) ==
    [rc \in Grid(N, 3 * N) |-> <<f1[rc], f2[rc], f3[rc]>>]

\* range(maximum) in create_mosaic_RGB: the frame indices read
RGBIndices(N, fs) == PyRange(0, N, 1)

\* create_mosaic_RGB.  Reading new_img[i] with i past the last frame
\* raises IndexError.
CreateMosaicRGB(cube1, cube2, cube3, N, fs) ==
    LET new_img1 == CreateMosaicNormal(cube1, N, fs)
        new_img2 == CreateMosaicNormal(cube2, N, fs)
        new_img3 == CreateMosaicNormal(cube3, N, fs)
        idx == RGBIndices(N, fs)
    IN IF \E k \in 1..Len(idx) : idx[k] >= Len(new_img1)
       THEN [status |-> "IndexError", frames |-> <<>>]
       ELSE LET rgb == [k \in 1..Len(idx) |->
                           StackRGB(new_img1[idx[k] + 1], new_img2[idx[k] + 1],
                                    new_img3[idx[k] + 1], N)]
            IN [status |-> "ok",
                frames |-> rgb \o ZeroFrames(RGBPadFrames, N, 3)]

----------------------------------------------------------------------------
(* The colormap step of write_gif_pseudocolor *)

\* matplotlib's "hot" at lookup index v of 256, as RGBA in thousandths
\* (red rises on [0, 0.365], green on [0.365, 0.746], blue on [0.746, 1]).
HotRGBA(v) ==
    LET x == (v * 1000) \div UInt8Max
        r == IF x >= 365 THEN 1000 ELSE 42 + (x * 958) \div 365
        g == IF x < 365 THEN 0
             ELSE IF x >= 746 THEN 1000 ELSE ((x - 365) * 1000) \div 381
        b == IF x < 746 THEN 0 ELSE ((x - 746) * 1000) \div 254
    IN <<r, g, b, 1000>>

\* np.delete(_, 3, 3): the alpha channel removed
DropAlpha(rgba) == SubSeq(rgba, 1, 3)

\* (255 * _).astype(np.uint8) of one channel value in thousandths
ToUInt8(t) == (UInt8Max * t) \div 1000

\* range(maximum) in write_gif_pseudocolor: the frame indices read
ColormapIndices(N, fs) == PyRange(0, N, 1)

\* cmap = get_cmap(colormap) raises ValueError for an unknown name;
\* color_transformed = [cmap(new_img[i, ...]) for i in range(maximum)]
\* raises IndexError on an index past the last frame.
ApplyColormap(new_img, N, fs, name) ==
    LET idx == ColormapIndices(N, fs)
    IN IF name # "hot"
       THEN [status |-> "ValueError", frames |-> <<>>]
       ELSE IF \E k \in 1..Len(idx) : idx[k] >= Len(new_img)
       THEN [status |-> "IndexError", frames |-> <<>>]
       ELSE [status |-> "ok",
             frames |-> [k \in 1..Len(idx) |->
                 [rc \in Grid(N, 3 * N) |->
                     LET rgb == DropAlpha(HotRGBA(new_img[idx[k] + 1][rc]))
                     IN [c \in 1..3 |-> ToUInt8(rgb[c])]]]]

----------------------------------------------------------------------------
(* The conversions write_gif_normal, _depth, _rgb and _pseudocolor *)

\* the statement after load_and_prepare_image* returns
AfterPrepare(m, n) == IF n < NumFiles(m) THEN "load" ELSE "compose"

\* a faulty variant: the compositor's exception swallowed
AfterComposeSwallow(m, status) ==
    IF m = "pseudocolor" THEN "colormap" ELSE "encode"

\* the statement after the compositor: an exception ends the conversion
AfterCompose(m, status) ==
    IF status # "ok" THEN "failed"
    ELSE IF m = "pseudocolor" THEN "colormap" ELSE "encode"

\* the statement after the colormap step
AfterColormap(status) == IF status # "ok" THEN "failed" ELSE "encode"

\* write_gif_rgb: maximum is bound only when the three dimensions agree,
\* and reading it unbound raises UnboundLocalError
RGBMaximum(m1, m2, m3) ==
    IF m1 = m2 /\ m1 = m3
    THEN [status |-> "ok", maximum |-> m1]
    ELSE [status |-> "UnboundLocalError", maximum |-> 0]

\* the compositor call of each conversion
ComposeFor(m, prep, fs) ==
    CASE m = "depth" ->
            CreateMosaicDepth(prep[1].cube, prep[1].maximum, fs)
      [] m = "rgb" ->
            LET mx == RGBMaximum(prep[1].maximum, prep[2].maximum,
                                 prep[3].maximum)
            IN IF mx.status # "ok"
               THEN [status |-> mx.status, frames |-> <<>>]
               ELSE CreateMosaicRGB(prep[1].cube, prep[2].cube, prep[3].cube,
                                    mx.maximum, fs)
      [] OTHER ->
            [status |-> "ok",
             frames |-> CreateMosaicNormal(prep[1].cube, prep[1].maximum, fs)]

\* the end of the output file name
OutputSuffix(m, name) ==
    CASE m = "normal" -> ".gif"
      [] m = "depth" -> "_depth.gif"
      [] m = "rgb" -> "_rgb.gif"
      [] OTHER -> "_" \o name \o ".gif"

\* mimwrite_: the timing argument the installed imageio takes
Timing(newer, fps) ==
    IF newer THEN [arg |-> "duration", value |-> MillisPerSecond \div fps]
    ELSE [arg |-> "fps", value |-> fps]

Init ==
    /\ mode \in Modes
    /\ pc = "load"
    /\ data = NoVolume
    /\ padded = NoCube
    /\ prepared = <<>>
    /\ frameskip = 0
    /\ colormap = ""
    /\ composed = <<>>
    /\ colored = <<>>
    /\ written = <<>>
    /\ encodeCalls = 0
    /\ error = ""
    /\ trace = <<>>

\* nb.load(filename).get_fdata() returns the file's array
Load ==
    /\ pc = "load"
    /\ \E vol \in FilesFor(mode) : data' = vol
    /\ pc' = "pad"
    /\ trace' = Append(trace, "load")
    /\ UNCHANGED <<mode, padded, prepared, frameskip, colormap, composed,
                   colored, written, encodeCalls, error>>

\* nb.load raises on a file it cannot read
LoadFail ==
    /\ pc = "load"
    /\ pc' = "failed"
    /\ error' = "FileNotFoundError"
    /\ UNCHANGED <<mode, data, padded, prepared, frameskip, colormap,
                   composed, colored, written, encodeCalls, trace>>

\* the zero cube and the slice assignment
Pad ==
    /\ pc = "pad"
    /\ LET r == PadFor(mode, data)
       IN /\ padded' = r
          /\ pc' = IF r.status = "ok" THEN "scale" ELSE "failed"
          /\ error' = IF r.status = "ok" THEN error ELSE r.status
    /\ UNCHANGED <<mode, data, prepared, frameskip, colormap, composed,
                   colored, written, encodeCalls, trace>>

\* the intensity scaling, the cast and the return
Scale ==
    /\ pc = "scale"
    /\ \E c \in ScaleOutcomes(padded) : prepared' = Append(prepared, c)
    /\ pc' = AfterPrepare(mode, Len(prepared) + 1)
    /\ trace' = Append(trace, "normalize")
    /\ UNCHANGED <<mode, data, padded, frameskip, colormap, composed, colored,
                   written, encodeCalls, error>>

\* the create_mosaic_* call
Compose ==
    /\ pc = "compose"
    /\ \E fs \in 1..MaxSkip :
          LET r == ComposeFor(mode, prepared, fs)
          IN /\ frameskip' = fs
             /\ composed' = r.frames
             /\ pc' = AfterCompose(mode, r.status)
             /\ error' = IF r.status = "ok" THEN error ELSE r.status
             /\ trace' = IF r.status = "ok" THEN Append(trace, "compose")
                         ELSE trace
    /\ UNCHANGED <<mode, data, padded, prepared, colormap, colored, written,
                   encodeCalls>>

\* write_gif_pseudocolor: get_cmap and the colour transformation
Colormap ==
    /\ pc = "colormap"
    /\ \E name \in Colormaps :
          LET r == ApplyColormap(composed, prepared[1].maximum, frameskip, name)
          IN /\ colormap' = name
             /\ colored' = r.frames
             /\ pc' = AfterColormap(r.status)
             /\ error' = IF r.status = "ok" THEN error ELSE r.status
             /\ trace' = IF r.status = "ok" THEN Append(trace, "colormap")
                         ELSE trace
    /\ UNCHANGED <<mode, data, padded, prepared, frameskip, composed, written,
                   encodeCalls>>

\* mimwrite_(path, frames, format='gif', fps=int(fps * size))
Encode ==
    /\ pc = "encode"
    /\ \E newer \in BOOLEAN :
          written' = Append(written,
              [suffix |-> OutputSuffix(mode, colormap),
               frames |-> IF mode = "pseudocolor" THEN colored ELSE composed,
               timing |-> Timing(newer, Fps)])
    /\ encodeCalls' = encodeCalls + 1
    /\ pc' = "done"
    /\ trace' = Append(trace, "encode")
    /\ UNCHANGED <<mode, data, padded, prepared, frameskip, colormap, composed,
                   colored, error>>

Next == Load \/ LoadFail \/ Pad \/ Scale \/ Compose \/ Colormap \/ Encode

Spec == Init /\ [][Next]_vars

----------------------------------------------------------------------------
(* Properties *)

IsPrefix(a, b) == Len(a) <= Len(b) /\ SubSeq(b, 1, Len(a)) = a

Prepared(n) == Len(prepared) >= n
Composed == frameskip >= 1

\* the cube side the compositor is called with
CubeN == prepared[1].maximum

\* frame i of the normal mosaic, pixel by pixel: columns [0, N) show the
\* axis-0 slice, [N, 2N) the axis-1 slice, [2N, 3N) the axis-2 slice
ExpectedPixel(cube, N, i, r, c) ==
    CASE c < N -> cube[<<i, c, N - 1 - r>>]
      [] c >= N /\ c < 2 * N -> cube[<<c - N, N - 1 - i, N - 1 - r>>]
      [] OTHER -> cube[<<c - 2 * N, N - 1 - r, N - 1 - i>>]

AllZero(frame) == \A rc \in DOMAIN frame : \A c \in DOMAIN frame[rc] : frame[rc][c] = 0

\* C1: create_mosaic_normal returns exactly ceil(N / frameskip) frames, the
\* k-th of them built at depth index (k - 1) * frameskip < N, so the frames
\* come one per index 0, frameskip, 2 * frameskip, ... in increasing order.
C1_FrameCount ==
    (mode \in {"normal", "pseudocolor"} /\ Composed) =>
        /\ Len(composed) = CeilDiv(CubeN, frameskip)
        /\ \A k \in 1..Len(composed) :
              LET i == (k - 1) * frameskip
              IN /\ i < CubeN
                 /\ \A r \in 0..(CubeN - 1), c \in 0..(CubeN - 1) :
                       composed[k][<<r, c>>] =
                           ExpectedPixel(prepared[1].cube, CubeN, i, r, c)

C1_Witness ==
    /\ mode = "normal" /\ Composed
    /\ CubeN = 3 /\ frameskip = 2 /\ Len(composed) = 2
    /\ composed[1] # composed[2]

\* C2: create_mosaic_depth returns as many frames as create_mosaic_normal on
\* the same cube and frameskip, every frame but the last three stacks the
\* mosaic frames i, i+1, i+2 as its three channels, and the last three
\* frames are all zero (stated for the cubes with N > 3, which have a
\* window to stack).
C2_DepthFrames ==
    (mode = "depth" /\ Composed /\ CubeN > DepthWindow) =>
        LET normal == CreateMosaicNormal(prepared[1].cube, CubeN, frameskip)
            n == Len(composed)
        IN /\ error = ""
           /\ n = Len(normal)
           /\ \A k \in 1..(n - 3) : \A rc \in Grid(CubeN, 3 * CubeN) :
                 composed[k][rc] =
                     <<normal[k][rc], normal[k + 1][rc], normal[k + 2][rc]>>
           /\ \A k \in (n - 2)..n : k >= 1 /\ AllZero(composed[k])

\* C3: the isotropic normalizer pads to a cube of side N = max(X, Y, Z);
\* on each axis the pad before the content and the pad after it add up to
\* N - dim, the pad after is the pad before or one more, the content lies
\* inside the cube, the content voxels are the data and every other voxel
\* is zero; the cube returned (for a volume that is not all zero) has the
\* same side and is zero outside the content too.
C3_IsotropicCentering ==
    (mode = "normal" /\ pc \notin {"load", "pad"} /\ error = "") =>
        LET N == padded.maximum
            dim == data.shape
            before == padded.start
            after == [k \in 1..3 |-> N - dim[k] - before[k]]
            inside(p) == \A k \in 1..3 :
                            before[k] <= p[k] /\ p[k] < before[k] + dim[k]
        IN /\ padded.status = "ok"
           /\ \A k \in 1..3 : dim[k] <= N
           /\ \E k \in 1..3 : dim[k] = N
           /\ \A k \in 1..3 :
                 /\ before[k] >= 0
                 /\ before[k] + dim[k] <= N
                 /\ before[k] <= after[k]
                 /\ after[k] <= before[k] + 1
           /\ \A p \in Coords(N) :
                 IF inside(p)
                 THEN padded.cube[p] =
                        data.px[<<p[1] - before[1], p[2] - before[2],
                                  p[3] - before[3]>>]
                 ELSE padded.cube[p] = 0
           /\ (Prepared(1) /\ CubeMax(padded) > 0) =>
                 /\ prepared[1].maximum = N
                 /\ DOMAIN prepared[1].cube = Coords(N)
                 /\ \A p \in Coords(N) :
                       /\ ~inside(p) => prepared[1].cube[p] = 0
                       /\ prepared[1].cube[p] \in 0..UInt8Max

C3_Witness ==
    /\ mode = "normal" /\ Prepared(1)
    /\ data.shape = <<1, 2, 4>>
    /\ padded.start = <<1, 1, 0>>
    /\ prepared[1].cube[<<1, 2, 3>>] = UInt8Max
    /\ prepared[1].cube[<<3, 2, 3>>] = 0

\* C4: when the three cube dimensions of the RGB conversion are not all the
\* same, the conversion fails with a DimensionMismatchError, with no mosaic
\* built and the encoder not called.
C4_DimensionMismatchError ==
    (/\ mode = "rgb" /\ Composed
     /\ ~(prepared[1].maximum = prepared[2].maximum
          /\ prepared[1].maximum = prepared[3].maximum)) =>
        /\ pc = "failed"
        /\ error = "DimensionMismatchError"
        /\ composed = <<>>
        /\ encodeCalls = 0

\* C5: a normalizer whose padded cube has maximum intensity 0 fails with a
\* DataError; it never returns a volume computed from a division by zero.
C5_DataError ==
    (/\ mode # "rgb" /\ pc \notin {"load", "pad"}
     /\ padded.status = "ok" /\ CubeMax(padded) = 0) =>
        (pc = "scale" \/ (pc = "failed" /\ error = "DataError" /\ ~Prepared(1)))

\* the stages of a conversion that runs to its end
ExpectedTrace(m) ==
    (IF m = "rgb"
     THEN <<"load", "normalize", "load", "normalize", "load", "normalize">>
     ELSE <<"load", "normalize">>)
    \o <<"compose">>
    \o (IF m = "pseudocolor" THEN <<"colormap">> ELSE <<>>)
    \o <<"encode">>

\* C6: the stages run in the order load, normalize, compose, (colormap),
\* encode; the encoder is called at most once, and only after every earlier
\* stage has completed without an exception; a conversion that has failed
\* has written no file.
C6_StageOrder ==
    /\ IsPrefix(trace, ExpectedTrace(mode))
    /\ encodeCalls <= 1
    /\ Len(written) = encodeCalls
    /\ encodeCalls = 1 => (trace = ExpectedTrace(mode) /\ error = "")
    /\ (pc = "failed" \/ error # "") => (written = <<>> /\ encodeCalls = 0)

C6_Witness ==
    /\ mode = "pseudocolor" /\ pc = "done"
    /\ trace = <<"load", "normalize", "compose", "colormap", "encode">>
    /\ encodeCalls = 1 /\ Len(written) = 1

\* C7: frame i of create_mosaic_normal shows, left to right, the axis-0
\* slice at index i, the axis-1 slice at index N-1-i and the axis-2 slice
\* at index N-1-i; each index lies in [0, N-1]; every frame is N high and
\* 3N wide.
C7_FrameLayout ==
    (mode \in {"normal", "pseudocolor"} /\ Composed) =>
        \A k \in 1..Len(composed) :
            LET i == (k - 1) * frameskip
            IN /\ i \in 0..(CubeN - 1)
               /\ (CubeN - 1 - i) \in 0..(CubeN - 1)
               /\ DOMAIN composed[k] = Grid(CubeN, 3 * CubeN)
               /\ \A rc \in Grid(CubeN, 3 * CubeN) :
                     composed[k][rc] =
                         ExpectedPixel(prepared[1].cube, CubeN, i, rc[1], rc[2])

C7_Witness ==
    /\ mode = "normal" /\ Composed /\ frameskip = 1
    /\ CubeN = 3 /\ Len(composed) = 3
    /\ prepared[1].cube[<<2, 2, 2>>] = UInt8Max
    /\ prepared[1].cube[<<0, 0, 0>>] < UInt8Max
    /\ composed[1][<<0, 5>>] = UInt8Max
    /\ composed[3][<<0, 2>>] = UInt8Max

RGBSameDims ==
    /\ mode = "rgb" /\ Composed
    /\ prepared[1].maximum = prepared[2].maximum
    /\ prepared[1].maximum = prepared[3].maximum

C9_OffsetsDiffer ==
    (/\ mode # "normal" /\ pc \notin {"load", "pad"} /\ error = ""
     /\ \E k \in 1..3 : (padded.maximum - data.shape[k]) % 2 = 1) =>
    \E shape \in Shapes :
        LET N == MaxOf({shape[k] : k \in 1..3})
        IN \E k \in 1..3 :
              /\ (N - shape[k]) % 2 = 1
              /\ LegacyStart(shape, N)[k] # IsoStart(shape, N)[k]

\* C9 amended: for every volume shape, odd pads included, the legacy start
\* offset int((dim - max) / -2) is floor((max - dim) / 2), the isotropic
\* one, and the legacy padding step places the content where the isotropic
\* padding step places it.
C9_OffsetsAgree ==
    (mode # "normal" /\ pc \notin {"load", "pad"} /\ error = "") =>
        LET N == padded.maximum
        IN /\ \A k \in 1..3 :
                 /\ 2 * padded.start[k] <= N - data.shape[k]
                 /\ N - data.shape[k] < 2 * padded.start[k] + 2
           /\ padded.start = IsoStart(data.shape, N)
           /\ padded = IsoPad(data)

C9_Witness ==
    /\ mode = "depth" /\ Prepared(1)
    /\ data.shape = <<1, 2, 4>>
    /\ padded.start = <<1, 1, 0>>
    /\ padded.cube[<<1, 2, 3>>] = 2

\* C10: the colormap step produces one 3-channel frame for each frame of
\* the normal mosaic, in the same order, and reads no frame index at or
\* past the mosaic's frame count.
C10_ColormapFrames ==
    (mode = "pseudocolor" /\ colormap = "hot") =>
        /\ error = ""
        /\ \A k \in 1..Len(ColormapIndices(CubeN, frameskip)) :
              ColormapIndices(CubeN, frameskip)[k] < Len(composed)
        /\ Len(colored) = Len(composed)
        /\ \A k \in 1..Len(colored) : \A rc \in DOMAIN composed[k] :
              /\ Len(colored[k][rc]) = 3
              /\ colored[k][rc] =
                   [c \in 1..3 |-> ToUInt8(HotRGBA(composed[k][rc])[c])]

====
